---- MODULE Spec2Model ----
(***************************************************************************)
(* Model of the deep_rag coded tools of neuro-san-cc:                      *)
(*   CoarseGrouping (coded_tools/deep_rag/coarse_grouping.py): partition   *)
(*     of a file list, fan-out of one pipeline per group, fan-in merge;    *)
(*   CreateNetworks (coded_tools/deep_rag/create_networks.py): assembly,   *)
(*     reservation and confirmed deployment of one group's networks;       *)
(* and of the cmp coded tool TxtLoader (coded_tools/cmp/txt_loader.py).    *)
(***************************************************************************)
EXTENDS Integers, Sequences, FiniteSets, TLC

(***************************************************************************)
(* Bounds of the model.                                                    *)
(***************************************************************************)
\* file lists of the partition runs have 0..MaxFiles files
MaxFiles == 7
\* max_group_size ranges over -MaxGroupSize..MaxGroupSize in the partition runs
MaxGroupSize == 4
\* file lists of the fan-out runs have 0..MaxPipelineFiles files
MaxPipelineFiles == 2
\* max_group_size ranges over 0..MaxPipelineGroupSize in the fan-out runs
MaxPipelineGroupSize == 2
\* a group descriptor names 1..MaxLeaves leaf groups
MaxLeaves == 1
\* the merge runs aggregate 1..MaxGroups group results ...
MaxGroups == 3
\* ... each with a reservation list of 0..MaxReservations entries
MaxReservations == 3
\* the detailed CreateNetworks runs take a grouping of 0..MaxDescGroups groups
MaxDescGroups == 2
\* ... each with a files mapping of 0..MaxFilesPerGroup entries, or none
MaxFilesPerGroup == 2
\* the text files TxtLoader reads have 0..MaxContent pieces of content
MaxContent == 3

(***************************************************************************)
(* Program constants.                                                      *)
(***************************************************************************)
\* args.get("max_group_size", 42)
DefaultMaxGroupSize == 42
\* CreateNetworks.LIFETIME = ONE_HOUR = 60 * 60
LIFETIME == 3600
\* CreateNetworks.TEMPLATE_FRONT_MAN_INDEX
TEMPLATE_FRONT_MAN_INDEX == 0

VARIABLES
    args,            \* the arguments of CoarseGrouping.async_invoke
    cpc,             \* position of CoarseGrouping.async_invoke
    file_groups,     \* outcome of create_file_groups
    sly_data,        \* the shared side-channel dictionary
    branch,          \* one record per coroutine of do_subgroups_in_parallel
    self_grouping_json, \* CreateNetworks.grouping_json (instance field)
    results,         \* the list gather returns to do_subgroups_in_parallel
    outcome,         \* what CoarseGrouping.async_invoke delivers to its caller
    warned,          \* group numbers for which prepare_agent_reservations warned
    cn,              \* one invocation of CreateNetworks.async_invoke, in detail
    loader           \* one invocation of TxtLoader.invoke

vars == <<args, cpc, file_groups, sly_data, branch, self_grouping_json, results, outcome,
          warned, cn, loader>>

(***************************************************************************)
(* Python arithmetic on integers.                                          *)
(***************************************************************************)
Abs(x) == IF x < 0 THEN -x ELSE x

Min(a, b) == IF a < b THEN a ELSE b

\* int(a / b) for b # 0: true division, then truncation toward zero
TruncDiv(a, b) ==
    IF (a >= 0) = (b > 0) THEN Abs(a) \div Abs(b) ELSE -(Abs(a) \div Abs(b))

\* a % b for b # 0: the result has the sign of the divisor
PyMod(a, b) == IF b > 0 THEN a % b ELSE -((-a) % (-b))

\* file_list[start:end] for 0 <= start, 0 <= end (0-based, end exclusive)
Slice(list, start, end) ==
    IF Min(end, Len(list)) <= start THEN <<>>
    ELSE SubSeq(list, start + 1, Min(end, Len(list)))

RECURSIVE Concat(_)
Concat(seqs) == IF seqs = <<>> THEN <<>> ELSE Head(seqs) \o Concat(Tail(seqs))

(***************************************************************************)
(* CoarseGrouping.create_file_groups                                       *)
(***************************************************************************)
ZeroDivisionError == [status |-> "ZeroDivisionError", groups |-> <<>>]

\* the loop of lines 112-117
SliceGroups(file_list, num_groups, files_per_group) ==
    [status |-> "ok",
     groups |-> IF num_groups <= 0 THEN <<>>
                ELSE [group_index \in 1..num_groups |->
                        LET start_index == (group_index - 1) * files_per_group
                            end_index == Min(start_index + files_per_group, Len(file_list))
                        IN Slice(file_list, start_index, end_index)]]

\* lines 106-108 mutated: the round-up of num_groups is forgotten
NumGroupsNoRoundUp(num_files, max_group_size) == TruncDiv(num_files, max_group_size)

\* lines 106-108
NumGroups(num_files, max_group_size) ==
    IF PyMod(num_files, max_group_size) # 0
    THEN TruncDiv(num_files, max_group_size) + 1
    ELSE TruncDiv(num_files, max_group_size)

\* args.get("max_group_size", 42)
MaxGroupSizeArg(a) == IF a.has_max_group_size THEN a.max_group_size ELSE DefaultMaxGroupSize

create_file_groups(a) ==
    LET file_list == a.file_list
        num_files == Len(file_list)
        max_group_size == MaxGroupSizeArg(a)
    IN IF ~(num_files > max_group_size)
       THEN SliceGroups(file_list, 1, num_files)
       ELSE IF max_group_size = 0
       THEN ZeroDivisionError
       ELSE LET num_groups == NumGroups(num_files, max_group_size)
            IN IF num_groups = 0
               THEN ZeroDivisionError
               ELSE SliceGroups(file_list, num_groups, TruncDiv(num_files, num_groups))

(***************************************************************************)
(* Data shapes.  Group numbers are 1-based here (group_number + 1).        *)
(***************************************************************************)
\* the empty dictionary / None where a group descriptor is expected
NoDescriptor == [name |-> 0, leaves |-> 0]

\* what rough_substructure returns for group g: its name and its leaf groups
Descriptor(g, k) == [name |-> g, leaves |-> k]

\* the {} appended to sly_data["group_results"] for each group
EmptySlot == [kind |-> "missing", agent_reservations |-> <<>>, grouping_json |-> NoDescriptor]

\* sly_data before the tool is invoked
EmptySlyData ==
    [group_results |-> <<>>,
     agent_reservations |-> <<>>,
     aa_grouping_json |-> [shape |-> "absent", value |-> <<>>]]

\* the coded tools that a specification does not run
Idle == cn = [pc |-> "idle"] /\ loader = [pc |-> "idle"]

NoOutcome == [status |-> "pending", entry |-> <<>>, lifetime |-> 0]

Raised(exception) == [status |-> exception, entry |-> <<>>, lifetime |-> 0]

\* lines 77-81: the arguments common to all groups, as opaque values
BasisArgs(a) ==
    [files_directory |-> "files_directory",
     user_description |-> "user_description",
     grouping_constraints |-> "grouping_constraints"]

NoToolArgs == [basis |-> BasisArgs(<<>>), file_list |-> <<>>]

\* lines 152-153 mutated: tool_args is basis_args itself, one dictionary for
\* all iterations, whose file_list is the one the last iteration has set
ToolArgsShared(basis_args, groups, g) ==
    [basis |-> basis_args, file_list |-> groups[Len(groups)]]

\* lines 152-153: a deep copy of basis_args with the group's file_list
ToolArgs(basis_args, groups, g) ==
    [basis |-> basis_args, file_list |-> groups[g]]

\* lines 193-197
CreateNetworkArgs(tool_args, one_grouping, group_number) ==
    [files_directory |-> tool_args.basis.files_directory,
     grouping_json |-> one_grouping,
     group_number |-> group_number]

\* a call of use_tool: the tool, its arguments, what it returned (if it did)
ToolCall(tool_name, tool_args, returned) ==
    [tool_name |-> tool_name, tool_args |-> tool_args, returned |-> returned]

\* a coroutine of do_one_subgroup_in_parallel, created and not yet started
NewBranch ==
    [pc |-> "analysis", grouping_json |-> NoDescriptor, read |-> 0, reserved |-> <<>>,
     deployed_event |-> "None", error |-> "none", result |-> NoOutcome,
     published |-> <<>>, group_number |-> 0, tool_args |-> NoToolArgs, calls |-> <<>>]

Groups == DOMAIN branch

\* one entry of assemble_reservation_info
ReservationInfo(reservation) ==
    [reservation_id |-> reservation.reservation_id,
     lifetime_in_seconds |-> reservation.lifetime_in_seconds]

assemble_reservation_info(reservations) ==
    [n \in DOMAIN reservations |-> ReservationInfo(reservations[n])]

\* line 140 mutated: the entry is taken from the head of the list
EntryOutputFirst(reservation_info) ==
    [status |-> "ok",
     entry |-> reservation_info[1].reservation_id,
     lifetime |-> reservation_info[1].lifetime_in_seconds]

\* lines 140-145: the sentence naming the last entry's id and lifetime
EntryOutput(reservation_info) ==
    [status |-> "ok",
     entry |-> reservation_info[Len(reservation_info)].reservation_id,
     lifetime |-> reservation_info[Len(reservation_info)].lifetime_in_seconds]

\* CreateNetworks.create_output: the same sentence, built from the entry point
\* of the merged list; a list with no entry point has no such sentence
create_output(reservation_info) ==
    IF reservation_info = <<>>
    THEN Raised("IndexError")
    ELSE EntryOutput(reservation_info)

(***************************************************************************)
(* CoarseGrouping.async_invoke up to its first suspension, the gather of   *)
(* do_subgroups_in_parallel.                                               *)
(***************************************************************************)
AsyncInvoke ==
    /\ cpc = "start"
    /\ LET fg == create_file_groups(args)
       IN /\ file_groups' = fg
          /\ IF fg.status # "ok"
             THEN /\ cpc' = "raised"
                  /\ outcome' = Raised(fg.status)
                  /\ UNCHANGED <<sly_data, branch>>
             ELSE /\ cpc' = "gather"
                  /\ sly_data' = [sly_data EXCEPT
                        !.group_results = [g \in 1..Len(fg.groups) |-> EmptySlot]]
                  /\ branch' = [g \in 1..Len(fg.groups) |->
                        [NewBranch EXCEPT
                            !.group_number = g,
                            !.tool_args = ToolArgs(BasisArgs(args), fg.groups, g)]]
                  /\ UNCHANGED outcome
    /\ UNCHANGED <<cn, loader, args, self_grouping_json, results, warned>>

(***************************************************************************)
(* do_one_subgroup_in_parallel: the rough_substructure call.               *)
(***************************************************************************)
AnalysisReturn(g) ==
    /\ branch[g].pc = "analysis"
    /\ \E k \in 1..MaxLeaves :
         branch' = [branch EXCEPT
            ![g].pc = "create_network",
            ![g].grouping_json = Descriptor(g, k),
            ![g].calls = Append(@, ToolCall("rough_substructure", branch[g].tool_args,
                                            Descriptor(g, k)))]
    /\ UNCHANGED <<cn, loader, args, cpc, file_groups, sly_data, self_grouping_json, results, outcome, warned>>

AnalysisFail(g) ==
    /\ branch[g].pc = "analysis"
    /\ branch' = [branch EXCEPT
          ![g].pc = "failed", ![g].error = "analysis",
          ![g].calls = Append(@, ToolCall("rough_substructure", branch[g].tool_args,
                                          NoDescriptor))]
    /\ UNCHANGED <<cn, loader, args, cpc, file_groups, sly_data, self_grouping_json, results, outcome, warned>>

(***************************************************************************)
(* CreateNetworks.async_invoke, one action per suspension point.           *)
(***************************************************************************)
\* lines 107-116 and assemble_deployments up to the first file read
CNEnter(g) ==
    /\ branch[g].pc = "create_network"
    /\ LET create_network_args ==
               CreateNetworkArgs(branch[g].tool_args, branch[g].grouping_json,
                                 branch[g].group_number)
       IN /\ self_grouping_json' = create_network_args.grouping_json
          /\ branch' = [branch EXCEPT
                ![g].pc = "read",
                ![g].calls = Append(@, ToolCall("create_network", create_network_args,
                                                NoDescriptor))]
    /\ UNCHANGED <<cn, loader, args, cpc, file_groups, sly_data, results, outcome, warned>>

\* make_leaf_networks: the files of the next leaf group are read
CNRead(g) ==
    /\ branch[g].pc = "read"
    /\ branch' = [branch EXCEPT
          ![g].read = @ + 1,
          ![g].pc = IF branch[g].read + 1 = branch[g].grouping_json.leaves
                    THEN "reserve" ELSE "read"]
    /\ UNCHANGED <<cn, loader, args, cpc, file_groups, sly_data, self_grouping_json, results, outcome, warned>>

\* aiofiles.open / read raises: nothing in CreateNetworks catches it
CNReadFail(g) ==
    /\ branch[g].pc = "read"
    /\ branch' = [branch EXCEPT ![g].pc = "failed", ![g].error = "read"]
    /\ UNCHANGED <<cn, loader, args, cpc, file_groups, sly_data, self_grouping_json, results, outcome, warned>>

\* reservationist.reserve: a fresh reservation, unique, for the given prefix;
\* network is the spec the deployments dictionary maps the reservation to
Reserve(g, prefix, network) ==
    [reservation_id |-> <<g, Len(branch[g].reserved) + 1>>,
     prefix |-> prefix,
     lifetime_in_seconds |-> LIFETIME,
     network |-> network]

\* reserve_leaf_networks (the prefix is the leaf group's name, taken from the
\* groups read at line 153), then the group network's reservation, whose
\* prefix is the name in self.grouping_json when line 168 runs
CNReserve(g) ==
    /\ branch[g].pc = "reserve"
    /\ IF Len(branch[g].reserved) < branch[g].grouping_json.leaves
       THEN branch' = [branch EXCEPT
               ![g].reserved = Append(@, Reserve(g,
                    <<branch[g].grouping_json.name, Len(branch[g].reserved) + 1>>, "leaf"))]
       ELSE branch' = [branch EXCEPT
               ![g].reserved = Append(@, Reserve(g, <<self_grouping_json.name, 0>>, "group")),
               ![g].pc = "deploy"]
    /\ UNCHANGED <<cn, loader, args, cpc, file_groups, sly_data, self_grouping_json, results, outcome, warned>>

\* line 124 mutated: deploy is called without confirmation
NoConfirmation == FALSE

\* line 124: confirmation=True
Confirmation == TRUE

\* Reservationist.deploy: an Event when confirmation is requested, else None
Deploy(confirmation) == IF confirmation THEN "pending" ELSE "None"

CNDeploy(g) ==
    /\ branch[g].pc = "deploy"
    /\ branch' = [branch EXCEPT ![g].pc = "wait",
                                ![g].deployed_event = Deploy(Confirmation)]
    /\ UNCHANGED <<cn, loader, args, cpc, file_groups, sly_data, self_grouping_json, results, outcome, warned>>

\* lines 126-137 mutated: the reservations are published before the error
\* is returned
CNDeployFailPublishes(g) ==
    /\ branch[g].pc = "deploy"
    /\ sly_data' = [sly_data EXCEPT
          !.agent_reservations = assemble_reservation_info(branch[g].reserved)]
    /\ branch' = [branch EXCEPT ![g].pc = "done", ![g].error = "deploy",
                                ![g].result = Raised("error message")]
    /\ UNCHANGED <<cn, loader, args, cpc, file_groups, self_grouping_json, results, outcome, warned>>

\* lines 126-130: deploy raises ValueError; the message is returned
CNDeployFail(g) ==
    /\ branch[g].pc = "deploy"
    /\ branch' = [branch EXCEPT ![g].pc = "done", ![g].error = "deploy",
                                ![g].result = Raised("error message")]
    /\ UNCHANGED <<cn, loader, args, cpc, file_groups, sly_data, self_grouping_json, results, outcome, warned>>

\* the deployment subsystem confirms the batch: every reservation is live
Confirm(g) ==
    /\ branch[g].deployed_event = "pending"
    /\ branch' = [branch EXCEPT ![g].deployed_event = "set"]
    /\ UNCHANGED <<cn, loader, args, cpc, file_groups, sly_data, self_grouping_json, results, outcome, warned>>

\* lines 132-145: past the wait, publish and return the output
CNPublish(g) ==
    /\ branch[g].pc = "wait"
    /\ branch[g].deployed_event # "pending"
    /\ LET reservation_info == assemble_reservation_info(branch[g].reserved)
       IN /\ sly_data' = [sly_data EXCEPT
                !.agent_reservations = reservation_info,
                !.aa_grouping_json = [shape |-> "single", value |-> <<self_grouping_json>>]]
          /\ branch' = [branch EXCEPT ![g].pc = "done",
                                      ![g].published = reservation_info,
                                      ![g].result = EntryOutput(reservation_info)]
    /\ UNCHANGED <<cn, loader, args, cpc, file_groups, self_grouping_json, results, outcome, warned>>

(***************************************************************************)
(* The join of do_subgroups_in_parallel: results = await gather(...).      *)
(***************************************************************************)
\* line 166 mutated: the wait ends with the first coroutine that returns
GatherReadyAny == \E g \in Groups : branch[g].pc = "done"

\* line 166: gather returns once every coroutine has returned
GatherReady == \A g \in Groups : branch[g].pc = "done"

GatherReturn ==
    /\ cpc = "gather"
    /\ GatherReady
    /\ cpc' = "aggregate"
    /\ results' = [g \in Groups |-> branch[g].result]
    /\ UNCHANGED <<cn, loader, args, file_groups, sly_data, branch, self_grouping_json, outcome, warned>>

\* gather without return_exceptions: the first exception is raised to the
\* awaiting coroutine at once; the other coroutines are not cancelled
GatherRaise ==
    /\ cpc = "gather"
    /\ \E g \in Groups :
         /\ branch[g].pc = "failed"
         /\ outcome' = Raised(branch[g].error)
    /\ cpc' = "raised"
    /\ UNCHANGED <<cn, loader, args, file_groups, sly_data, branch, self_grouping_json, results, warned>>

(***************************************************************************)
(* CoarseGrouping.prepare_agent_reservations and process_group_results.    *)
(***************************************************************************)
\* lines 221-227: no reservations, or reservations that are not a list
Skipped(group_result) ==
    \/ group_result.kind # "list"
    \/ group_result.agent_reservations = <<>>

\* reservation_info[:-1]
AllButLast(list) == SubSeq(list, 1, Len(list) - 1)

\* line 230 mutated: the slice keeps the whole list
WholeList(list) == list

\* line 230: the leaf networks of one group
LeafReservations(list) == AllButLast(list)

\* lines 214-236: the value left in sly_data["agent_reservations"]
prepare_agent_reservations(group_results) ==
    LET leaves == [g \in DOMAIN group_results |->
                     IF Skipped(group_results[g]) THEN <<>>
                     ELSE LeafReservations(group_results[g].agent_reservations)]
        mid_level_networks ==
                  [g \in DOMAIN group_results |->
                     IF Skipped(group_results[g]) THEN <<>>
                     ELSE <<group_results[g].agent_reservations[
                               Len(group_results[g].agent_reservations)]>>]
    IN Concat(leaves) \o Concat(mid_level_networks)

\* lines 254-266 mutated: the descriptors are always stored as a list
GroupingJsonAsList(group_results) ==
    [shape |-> "list",
     value |-> [g \in DOMAIN group_results |-> group_results[g].grouping_json]]

\* lines 254-266: the value left in sly_data["aa_grouping_json"]
GroupingJsonOf(group_results) ==
    IF Len(group_results) = 1
    THEN [shape |-> "single", value |-> <<group_results[1].grouping_json>>]
    ELSE [shape |-> "list",
          value |-> [g \in DOMAIN group_results |-> group_results[g].grouping_json]]

ProcessGroupResults ==
    /\ cpc = "aggregate"
    /\ LET group_results == sly_data.group_results
           reservation_info == prepare_agent_reservations(group_results)
           output == create_output(reservation_info)
       IN /\ sly_data' = [sly_data EXCEPT
                !.agent_reservations = reservation_info,
                !.aa_grouping_json = GroupingJsonOf(group_results)]
          /\ warned' = {g \in DOMAIN group_results : Skipped(group_results[g])}
          /\ outcome' = output
          /\ cpc' = IF output.status = "ok" THEN "done" ELSE "raised"
    /\ UNCHANGED <<cn, loader, args, file_groups, branch, self_grouping_json, results>>

(***************************************************************************)
(* CreateNetworks in detail: texts, the template, the builders.            *)
(* A text is a sequence of tokens; a placeholder is a token of its own.    *)
(***************************************************************************)
\* dict.get(key) where the key may be absent: None, or a text
NoneText == [none |-> TRUE, text |-> <<>>]

Text(tokens) == [none |-> FALSE, text |-> tokens]

\* str.startswith for a prefix that is one token
StartsWith(text, token) == Len(text) > 0 /\ text[1] = token

\* name.replace(" ", "_")
Sanitize(text) == [n \in DOMAIN text |-> IF text[n] = " " THEN "_" ELSE text[n]]

\* StringCommonDefsConfigFilter on one string: every placeholder that is a
\* key of the replacements is replaced by its value
Substitute(text, replacements) ==
    Concat([n \in DOMAIN text |->
              IF text[n] \in DOMAIN replacements
              THEN replacements[text[n]]
              ELSE <<text[n]>>])

\* group_template.hocon: the front man first, the content-node template last
FrontManTemplate ==
    [name |-> <<"one_group">>,
     instructions |-> <<"title", ": ", "aaosa_instructions">>,
     has_user_prompt |-> TRUE,
     user_prompt |-> <<"ask ", "one_group">>,
     description |-> <<"front man">>,
     tools |-> <<>>]

ContentTemplate ==
    [name |-> <<"one_content_file">>,
     instructions |-> <<"content">>,
     has_user_prompt |-> FALSE,
     user_prompt |-> <<>>,
     description |-> <<"answers from ", "one_content_file">>,
     tools |-> <<>>]

NetworkTemplate == [tools |-> <<FrontManTemplate, ContentTemplate>>]

\* aaosa_basic.hocon, as far as filter_agent uses it
AaosaReplacements ==
    ("aaosa_command" :> <<"AAOSA command">>) @@
    ("aaosa_instructions" :> <<"AAOSA instructions">>)

\* lines 251-278: the string filter over the strings of one agent spec
filter_agent(agent_spec, replacements) ==
    LET string_replacements == replacements @@ AaosaReplacements
    IN [agent_spec EXCEPT
          !.name = Substitute(@, string_replacements),
          !.instructions = Substitute(@, string_replacements),
          !.user_prompt = Substitute(@, string_replacements),
          !.description = Substitute(@, string_replacements)]

\* what the file read of create_one_content_agent returns for a file
FileContent(file_name) == <<"text of ">> \o file_name

\* lines 242-248 mutated: the copy of the template is returned unfiltered
ContentAgentUnfiltered(file_name, tool_name, content_template) == content_template

\* lines 241-249, after the file is read
create_one_content_agent(file_name, tool_name, content_template) ==
    filter_agent(content_template,
                 ("one_content_file" :> tool_name) @@
                 ("content" :> FileContent(file_name)))

\* lines 280-298
create_front_man(front_man, group, grouping_json, tools) ==
    [filter_agent(front_man,
                  ("one_group" :> group.name.text) @@
                  ("title" :> grouping_json.name.text))
     EXCEPT !.tools = tools]

\* tools.pop()
PopLast(tools) == SubSeq(tools, 1, Len(tools) - 1)

\* line 202 mutated: the content-node template is read but left in the list
KeepLast(tools) == tools

\* lines 202, 325: the tools once the content-node template is popped
WithoutContentTemplate(tools) == PopLast(tools)

\* lines 198-228 on the copy of the template, after the files are read
create_one_leaf_network(agent_spec, group, grouping_json) ==
    LET content_template == agent_spec.tools[Len(agent_spec.tools)]
        files == group.files.items
        content_agents ==
            [n \in DOMAIN files |->
                create_one_content_agent(files[n].file_name, files[n].tool_name,
                                         content_template)]
        content_tools == [n \in DOMAIN files |-> files[n].tool_name]
        tools == WithoutContentTemplate(agent_spec.tools) \o content_agents
        front_man == [create_front_man(tools[TEMPLATE_FRONT_MAN_INDEX + 1], group,
                                       grouping_json, content_tools)
                      EXCEPT !.has_user_prompt = FALSE, !.user_prompt = <<>>]
    IN [agent_spec EXCEPT !.tools = [tools EXCEPT ![TEMPLATE_FRONT_MAN_INDEX + 1] = front_man]]

\* lines 330-333
ExternalTool(res_id) ==
    IF ~StartsWith(res_id, "/") \/ ~StartsWith(res_id, "http")
    THEN <<"http://localhost/">> \o res_id
    ELSE res_id

\* lines 321-341 on the copy of the template
make_group_network(agent_spec, urls, grouping_json) ==
    LET tools == WithoutContentTemplate(agent_spec.tools)
        external_tools == [n \in DOMAIN urls |-> ExternalTool(urls[n])]
        made == create_front_man(tools[TEMPLATE_FRONT_MAN_INDEX + 1], grouping_json,
                                 grouping_json, external_tools)
        front_man == [made EXCEPT !.description = made.user_prompt]
    IN [agent_spec EXCEPT !.tools = [tools EXCEPT ![TEMPLATE_FRONT_MAN_INDEX + 1] = front_man]]

\* lines 198, 321 mutated: the builders work on the template itself
NoCopy(template) == [shared |-> TRUE, value |-> template]

\* deepcopy(self.network_template): a value that shares nothing with it
DeepCopy(template) == [shared |-> FALSE, value |-> template]

\* lines 155-159: name_to_group[name] = group, a later group of the same name
\* taking the place of the earlier one
RECURSIVE NameToGroup(_)
NameToGroup(groups) ==
    IF groups = <<>> THEN <<>>
    ELSE LET before == NameToGroup(PopLast(groups))
             group == groups[Len(groups)]
         IN IF \E n \in DOMAIN before : before[n].name = group.name
            THEN [n \in DOMAIN before |->
                    IF before[n].name = group.name THEN group ELSE before[n]]
            ELSE Append(before, group)

(***************************************************************************)
(* One invocation of CreateNetworks.async_invoke in detail (variable cn).  *)
(***************************************************************************)
PipelineVars ==
    <<args, cpc, file_groups, sly_data, branch, self_grouping_json, results, outcome, warned>>

\* the state of the invocation when async_invoke is entered with grouping_json
NewInvocation(grouping_json) ==
    [pc |-> "invoke",
     grouping_json |-> grouping_json,
     network_template |-> NetworkTemplate,
     name_to_group |-> <<>>,
     next |-> 1,
     name_to_network |-> <<>>,
     deployments |-> <<>>,
     deploy_calls |-> <<>>,
     deployed_event |-> "None",
     published |-> FALSE,
     agent_reservations |-> <<>>,
     output |-> NoOutcome,
     error |-> "none"]

\* group.get("files") is truthy
HasFiles(group) == group.files.present /\ group.files.items # <<>>

\* lines 162-164 mutated: a leaf network is reserved as soon as it is built
AfterLeavesEager(name_to_group, next, name_to_network) ==
    IF name_to_network # <<>> THEN "reserve_leaf_networks"
    ELSE IF next <= Len(name_to_group) THEN "make_leaf_networks"
    ELSE "make_group_network"

\* the position after a pass of make_leaf_networks over name_to_group
AfterLeaves(name_to_group, next, name_to_network) ==
    IF next <= Len(name_to_group) THEN "make_leaf_networks"
    ELSE IF name_to_network # <<>> THEN "reserve_leaf_networks"
    ELSE "make_group_network"

\* lines 107-116, 152-159: the arguments are taken, name_to_group is built
AssembleStart ==
    /\ cn.pc = "invoke"
    /\ LET name_to_group == NameToGroup(cn.grouping_json.groups)
       IN cn' = [cn EXCEPT !.name_to_group = name_to_group,
                           !.pc = AfterLeaves(name_to_group, 1, <<>>)]
    /\ UNCHANGED <<PipelineVars, loader>>

\* lines 184-189: one group of name_to_group; a group with files is built
MakeLeafNetwork ==
    /\ cn.pc = "make_leaf_networks"
    /\ LET group == cn.name_to_group[cn.next]
           copy == DeepCopy(cn.network_template)
           network == create_one_leaf_network(copy.value, group, cn.grouping_json)
           name_to_network ==
               IF HasFiles(group)
               THEN Append(cn.name_to_network, [name |-> group.name, network |-> network])
               ELSE cn.name_to_network
       IN cn' = [cn EXCEPT
                   !.name_to_network = name_to_network,
                   !.network_template =
                       IF HasFiles(group) /\ copy.shared THEN network ELSE @,
                   !.next = @ + 1,
                   !.pc = AfterLeaves(cn.name_to_group, cn.next + 1, name_to_network)]
    /\ UNCHANGED <<PipelineVars, loader>>

\* lines 236-239: a file of the group cannot be read
MakeLeafNetworkReadFail ==
    /\ cn.pc = "make_leaf_networks"
    /\ HasFiles(cn.name_to_group[cn.next])
    /\ cn' = [cn EXCEPT !.pc = "raised", !.error = "OSError"]
    /\ UNCHANGED <<PipelineVars, loader>>

\* the tokens from which the reservationist makes ids
IdTokens == <<"r1", "r2", "r3", "r4", "r5", "r6">>

\* Reservation.get_url: relative, rooted, or absolute
UrlKinds == {"relative", "rooted", "absolute"}

Url(kind, id) ==
    IF kind = "rooted" THEN <<"/", id>>
    ELSE IF kind = "absolute" THEN <<"http", "://host/", id>>
    ELSE <<id>>

\* reservationist.reserve in this invocation
NewReservation(prefix, kind) ==
    [reservation_id |-> <<0, Len(cn.deployments) + 1>>,
     prefix |-> prefix,
     lifetime_in_seconds |-> LIFETIME,
     url |-> Url(kind, IdTokens[Len(cn.deployments) + 1])]

\* lines 308-312: one network of name_to_network is reserved
ReserveLeafNetwork ==
    /\ cn.pc = "reserve_leaf_networks"
    /\ LET entry == cn.name_to_network[Len(cn.deployments) + 1]
       IN IF entry.name.none
          THEN cn' = [cn EXCEPT !.pc = "raised", !.error = "AttributeError"]
          ELSE \E kind \in UrlKinds :
                 cn' = [cn EXCEPT
                    !.deployments = Append(@,
                        [reservation |-> NewReservation(Sanitize(entry.name.text), kind),
                         network |-> entry.network,
                         level |-> "leaf"]),
                    !.pc = IF Len(cn.deployments) + 1 = Len(cn.name_to_network)
                           THEN "make_group_network" ELSE "reserve_leaf_networks"]
    /\ UNCHANGED <<PipelineVars, loader>>

\* lines 166-172: the group network is made from the reservations so far,
\* then reserved under the name of the grouping
ReserveGroupNetwork ==
    /\ cn.pc = "make_group_network"
    /\ LET copy == DeepCopy(cn.network_template)
           urls == [n \in DOMAIN cn.deployments |-> cn.deployments[n].reservation.url]
           group_network == make_group_network(copy.value, urls, cn.grouping_json)
           template == IF copy.shared THEN group_network ELSE cn.network_template
       IN IF cn.grouping_json.name.none
          THEN cn' = [cn EXCEPT !.pc = "raised", !.error = "AttributeError",
                                !.network_template = template]
          ELSE cn' = [cn EXCEPT
                 !.deployments = Append(@,
                     [reservation |->
                          NewReservation(Sanitize(cn.grouping_json.name.text), "relative"),
                      network |-> group_network,
                      level |-> "group"]),
                 !.network_template = template,
                 !.pc = "deploy"]
    /\ UNCHANGED <<PipelineVars, loader>>

\* lines 121-124; deploy_calls keeps the batch of every call of deploy
DeployBatch ==
    /\ cn.pc = "deploy"
    /\ cn' = [cn EXCEPT !.pc = "wait", !.deployed_event = Deploy(Confirmation),
                        !.deploy_calls = Append(@, cn.deployments)]
    /\ UNCHANGED <<PipelineVars, loader>>

\* lines 122-130 mutated: the batch is deployed again after a ValueError
DeployBatchFailRetries ==
    /\ cn.pc = "deploy"
    /\ Len(cn.deploy_calls) < 2
    /\ cn' = [cn EXCEPT !.deploy_calls = Append(@, cn.deployments)]
    /\ UNCHANGED <<PipelineVars, loader>>

\* lines 126-130
DeployBatchFail ==
    /\ cn.pc = "deploy"
    /\ cn' = [cn EXCEPT !.pc = "done", !.error = "ValueError",
                        !.output = Raised("error message"),
                        !.deploy_calls = Append(@, cn.deployments)]
    /\ UNCHANGED <<PipelineVars, loader>>

\* the deployment subsystem confirms the batch
ConfirmBatch ==
    /\ cn.pc = "wait"
    /\ cn.deployed_event = "pending"
    /\ cn' = [cn EXCEPT !.deployed_event = "set"]
    /\ UNCHANGED <<PipelineVars, loader>>

\* lines 132-145
PublishBatch ==
    /\ cn.pc = "wait"
    /\ cn.deployed_event # "pending"
    /\ LET reservation_info ==
               assemble_reservation_info(
                   [n \in DOMAIN cn.deployments |-> cn.deployments[n].reservation])
       IN cn' = [cn EXCEPT !.pc = "done",
                           !.published = TRUE,
                           !.agent_reservations = reservation_info,
                           !.output = EntryOutput(reservation_info)]
    /\ UNCHANGED <<PipelineVars, loader>>

(***************************************************************************)
(* Specifications.                                                         *)
(***************************************************************************)
FileList(n) == [f \in 1..n |-> f]

\* the argument dictionaries of the partition runs
PartitionArgs ==
    {[file_list |-> FileList(n), has_max_group_size |-> TRUE, max_group_size |-> m] :
        n \in 0..MaxFiles, m \in (0 - MaxGroupSize)..MaxGroupSize}
    \cup
    {[file_list |-> FileList(n), has_max_group_size |-> FALSE,
      max_group_size |-> DefaultMaxGroupSize] : n \in 0..MaxFiles}

\* the argument dictionaries of the fan-out runs
PipelineArgs ==
    {[file_list |-> FileList(n), has_max_group_size |-> TRUE, max_group_size |-> m] :
        n \in 0..MaxPipelineFiles, m \in 0..MaxPipelineGroupSize}

\* the state in which CoarseGrouping is invoked
FreshPipeline ==
    /\ cpc = "start"
    /\ file_groups = [status |-> "pending", groups |-> <<>>]
    /\ sly_data = EmptySlyData
    /\ branch = <<>>
    /\ self_grouping_json = NoDescriptor
    /\ results = <<>>
    /\ outcome = NoOutcome
    /\ warned = {}

Fresh == FreshPipeline /\ Idle

Init == args \in PipelineArgs /\ Fresh

Next ==
    \/ AsyncInvoke
    \/ \E g \in Groups : AnalysisReturn(g)
    \/ \E g \in Groups : AnalysisFail(g)
    \/ \E g \in Groups : CNEnter(g)
    \/ \E g \in Groups : CNRead(g)
    \/ \E g \in Groups : CNReadFail(g)
    \/ \E g \in Groups : CNReserve(g)
    \/ \E g \in Groups : CNDeploy(g)
    \/ \E g \in Groups : CNDeployFail(g)
    \/ \E g \in Groups : Confirm(g)
    \/ \E g \in Groups : CNPublish(g)
    \/ GatherReturn
    \/ GatherRaise
    \/ ProcessGroupResults

Spec == Init /\ [][Next]_vars

\* create_file_groups alone, over the argument dictionaries of PartitionArgs
InitGroups == args \in PartitionArgs /\ Fresh

NextGroups == AsyncInvoke

SpecGroups == InitGroups /\ [][NextGroups]_vars

\* the reservation list create_network would leave for group g with n entries
ReservationList(g, n) ==
    [k \in 1..n |-> [reservation_id |-> <<g, k>>, lifetime_in_seconds |-> LIFETIME]]

\* the group results prepare_agent_reservations may be handed for group g
SlotsOf(g) ==
    {[kind |-> "list", agent_reservations |-> ReservationList(g, n),
      grouping_json |-> Descriptor(g, 1)] : n \in 0..MaxReservations}
    \cup
    {[kind |-> k, agent_reservations |-> <<>>, grouping_json |-> Descriptor(g, 1)] :
        k \in {"missing", "other"}}

RECURSIVE GroupResultsOf(_)
GroupResultsOf(n) ==
    IF n = 0 THEN {<<>>}
    ELSE {Append(rest, slot) : rest \in GroupResultsOf(n - 1), slot \in SlotsOf(n)}

\* process_group_results alone, over group results of 1..MaxGroups groups
InitMerge ==
    /\ args = [file_list |-> <<>>, has_max_group_size |-> FALSE,
               max_group_size |-> DefaultMaxGroupSize]
    /\ cpc = "aggregate"
    /\ file_groups = [status |-> "pending", groups |-> <<>>]
    /\ \E n \in 1..MaxGroups : \E group_results \in GroupResultsOf(n) :
         sly_data = [EmptySlyData EXCEPT !.group_results = group_results]
    /\ branch = <<>>
    /\ self_grouping_json = NoDescriptor
    /\ results = <<>>
    /\ outcome = NoOutcome
    /\ warned = {}
    /\ Idle

NextMerge == ProcessGroupResults

SpecMerge == InitMerge /\ [][NextMerge]_vars

\* the texts the descriptors of the detailed runs are made of
FileNames == <<"a.txt", "b.txt", "c.txt", "d.txt">>

AgentNames == <<"agentA", "agentB", "agentC", "agentD">>

GroupNames == {NoneText, Text(<<"A">>), Text(<<"B", " ", "B">>)}

\* a files mapping of k entries, in iteration order
FilesMapping(k) ==
    [present |-> TRUE,
     items |-> [n \in 1..k |-> [file_name |-> <<FileNames[n]>>,
                                tool_name |-> <<AgentNames[n]>>]]]

\* a group of a grouping: with or without name, with or without files
GroupChoices ==
    {[name |-> name, files |-> files] :
        name \in GroupNames,
        files \in {[present |-> FALSE, items |-> <<>>]} \cup
                  {FilesMapping(k) : k \in 0..MaxFilesPerGroup}}

RECURSIVE GroupLists(_)
GroupLists(n) ==
    IF n = 0 THEN {<<>>}
    ELSE GroupLists(n - 1) \cup
         {Append(rest, group) : rest \in {l \in GroupLists(n - 1) : Len(l) = n - 1},
                                group \in GroupChoices}

GroupingJsons ==
    {[name |-> name, groups |-> groups] :
        name \in {NoneText, Text(<<"T", " ", "T">>)},
        groups \in GroupLists(MaxDescGroups)}

\* CreateNetworks.async_invoke alone, over the groupings of GroupingJsons
InitNetworks ==
    /\ args = [file_list |-> <<>>, has_max_group_size |-> FALSE,
               max_group_size |-> DefaultMaxGroupSize]
    /\ FreshPipeline
    /\ loader = [pc |-> "idle"]
    /\ \E grouping_json \in GroupingJsons : cn = NewInvocation(grouping_json)

NextNetworks ==
    \/ AssembleStart
    \/ MakeLeafNetwork
    \/ MakeLeafNetworkReadFail
    \/ ReserveLeafNetwork
    \/ ReserveGroupNetwork
    \/ DeployBatch
    \/ DeployBatchFail
    \/ ConfirmBatch
    \/ PublishBatch

SpecNetworks == InitNetworks /\ [][NextNetworks]_vars

(***************************************************************************)
(* TxtLoader.invoke: one synchronous call, over the file system it finds.  *)
(* Texts are sequences of pieces; an error message keeps its words and     *)
(* punctuation apart, so that its format can be read off.                  *)
(***************************************************************************)
\* Path.cwd() / Path(file_path): an absolute file_path replaces the cwd
FullFilePath(file_path) ==
    IF StartsWith(file_path, "/") THEN file_path ELSE <<"cwd", "/">> \o file_path

\* f.read() of a file opened in text mode with the default newline=None:
\* every line ending is returned as "\n"
ReadText(content) ==
    [n \in DOMAIN content |-> IF content[n] \in {"\r\n", "\r"} THEN "\n" ELSE content[n]]

\* str(e) of the exception open() or read() raises on a file that is not a
\* readable utf-8 text file
ExceptionText(file) ==
    CASE file.kind = "missing"     -> "[Errno 2] No such file or directory"
      [] file.kind = "directory"   -> "[Errno 21] Is a directory"
      [] file.kind = "denied"      -> "[Errno 13] Permission denied"
      [] file.kind = "undecodable" -> "'utf-8' codec can't decode byte"

\* lines 61-67
extract_txt_content(txt_path, file) ==
    IF file.kind = "text"
    THEN ReadText(file.content)
    ELSE <<"Error", " ", "reading", " ", "TXT", " ">> \o txt_path
            \o <<":", " ", ExceptionText(file)>>

\* args.get("file_path", "")
FilePathArg(a) == IF a.has_file_path THEN a.file_path ELSE <<>>

\* lines 38-42: no file_path, or an empty one
InvokeNoFilePath ==
    /\ loader.pc = "invoke"
    /\ FilePathArg(loader.args) = <<>>
    /\ loader' = [loader EXCEPT
            !.pc = "returned",
            !.output = <<"Error", ":", " ", "No file path provided.">>]
    /\ UNCHANGED <<PipelineVars, cn>>

\* lines 38-51 and 61-63: the file is read and its text returned
InvokeRead ==
    /\ loader.pc = "invoke"
    /\ FilePathArg(loader.args) # <<>>
    /\ loader.file.kind = "text"
    /\ loader' = [loader EXCEPT
            !.pc = "returned",
            !.full_file_path = FullFilePath(FilePathArg(loader.args)),
            !.output = extract_txt_content(FullFilePath(FilePathArg(loader.args)),
                                           loader.file)]
    /\ UNCHANGED <<PipelineVars, cn>>

\* lines 38-51 and 64-67: open or read raises, the exception is caught
InvokeReadError ==
    /\ loader.pc = "invoke"
    /\ FilePathArg(loader.args) # <<>>
    /\ loader.file.kind # "text"
    /\ loader' = [loader EXCEPT
            !.pc = "returned",
            !.full_file_path = FullFilePath(FilePathArg(loader.args)),
            !.output = extract_txt_content(FullFilePath(FilePathArg(loader.args)),
                                           loader.file)]
    /\ UNCHANGED <<PipelineVars, cn>>

\* the args TxtLoader.invoke may be handed
LoaderArgs ==
    {[has_file_path |-> FALSE, file_path |-> <<>>]}
    \cup {[has_file_path |-> TRUE, file_path |-> p] :
             p \in {<<>>, <<"a.txt">>, <<"/", "tmp", "/", "b.txt">>}}

\* the pieces of a text file's content
Pieces == {"a", "\n", "\r\n"}

RECURSIVE Contents(_)
Contents(n) ==
    IF n = 0 THEN {<<>>}
    ELSE Contents(n - 1) \cup
         {Append(c, x) : c \in {d \in Contents(n - 1) : Len(d) = n - 1}, x \in Pieces}

\* what may be found at the path
Files ==
    {[kind |-> "text", content |-> c] : c \in Contents(MaxContent)}
    \cup {[kind |-> k, content |-> <<>>] :
             k \in {"missing", "directory", "denied", "undecodable"}}

InitLoader ==
    /\ args = [file_list |-> <<>>, has_max_group_size |-> FALSE,
               max_group_size |-> DefaultMaxGroupSize]
    /\ FreshPipeline
    /\ cn = [pc |-> "idle"]
    /\ \E a \in LoaderArgs : \E file \in Files :
         loader = [pc |-> "invoke", args |-> a, file |-> file,
                   full_file_path |-> <<>>, output |-> <<>>]

NextLoader ==
    \/ InvokeNoFilePath
    \/ InvokeRead
    \/ InvokeReadError

SpecLoader == InitLoader /\ [][NextLoader]_vars

(***************************************************************************)
(* Properties of create_file_groups (checked under SpecGroups).            *)
(***************************************************************************)
\* create_file_groups has run and returned a list of groups
Returned == file_groups.status = "ok"

\* create_file_groups has run, whatever came of it
Called == cpc # "start"

CeilDiv(n, m) == (n + m - 1) \div m

\* C1: for every file list and every max_group_size > 0, the groups returned
\* by create_file_groups, concatenated in group order, are the input file
\* list: no file lost, duplicated or reordered.
C1_ConcatenationIsInput ==
    (Returned /\ MaxGroupSizeArg(args) > 0) =>
        Concat(file_groups.groups) = args.file_list

\* C2: for N files and max_group_size M > 0, create_file_groups returns
\* ceil(N/M) groups when N > M, one group when 0 < N <= M, and no group when
\* N = 0.
C2_GroupCount ==
    (Called /\ MaxGroupSizeArg(args) > 0) =>
        /\ Returned
        /\ Len(file_groups.groups) =
             IF Len(args.file_list) > MaxGroupSizeArg(args)
             THEN CeilDiv(Len(args.file_list), MaxGroupSizeArg(args))
             ELSE IF Len(args.file_list) > 0 THEN 1 ELSE 0

\* C3: for every file list and every max_group_size M > 0, every group
\* returned by create_file_groups holds at most M files.
C3_GroupsBounded ==
    (Called /\ MaxGroupSizeArg(args) > 0) =>
        /\ Returned
        /\ \A g \in DOMAIN file_groups.groups :
             Len(file_groups.groups[g]) <= MaxGroupSizeArg(args)

\* C3 witness: a list too long for one group was split, and a group is full
C3_Witness ==
    /\ Returned
    /\ MaxGroupSizeArg(args) > 0
    /\ Len(args.file_list) > MaxGroupSizeArg(args)
    /\ Len(file_groups.groups) >= 3
    /\ \E g \in DOMAIN file_groups.groups :
         Len(file_groups.groups[g]) = MaxGroupSizeArg(args)

\* C4: with max_group_size <= 0, create_file_groups fails with an input
\* error for every file list: it returns no list of groups and it divides by
\* zero nowhere.
C4_NonPositiveSizeRejected ==
    (Called /\ MaxGroupSizeArg(args) <= 0) =>
        file_groups.status \notin {"ok", "ZeroDivisionError"}

(***************************************************************************)
(* Properties of prepare_agent_reservations (checked under SpecMerge).     *)
(***************************************************************************)
RECURSIVE SumLen(_, _)
\* the summed length of the reservation lists of groups 1..n
SumLen(group_results, n) ==
    IF n = 0 THEN 0
    ELSE SumLen(group_results, n - 1) + Len(group_results[n].agent_reservations)

\* every group result carries a list with at least its entry point
AllCarryReservations ==
    \A g \in DOMAIN sly_data.group_results : ~Skipped(sly_data.group_results[g])

\* C5: for G >= 2 groups whose results each carry a reservation list, the
\* merged list holds, group after group, all but the last reservation of each
\* group, then the last reservation of each group in group order; so it is as
\* long as the lists together and ends with the G entry points.
C5_MergedOrder ==
    (cpc \in {"done", "raised"} /\ Len(sly_data.group_results) >= 2 /\ AllCarryReservations) =>
        LET group_results == sly_data.group_results
            G == Len(group_results)
            merged == sly_data.agent_reservations
            total == SumLen(group_results, G)
        IN /\ Len(merged) = total
           /\ \A g \in 1..G :
                LET mine == group_results[g].agent_reservations
                    before == SumLen(group_results, g - 1) - (g - 1)
                IN /\ merged[total - G + g] = mine[Len(mine)]
                   /\ \A j \in 1..(Len(mine) - 1) : merged[before + j] = mine[j]

\* C5 witness: at least two groups were merged, with lists of unequal length,
\* one of them with leaf networks before its entry point
C5_Witness ==
    /\ cpc = "done"
    /\ Len(sly_data.group_results) >= 2
    /\ AllCarryReservations
    /\ Len(sly_data.group_results[1].agent_reservations) >= 3
    /\ Len(sly_data.group_results[2].agent_reservations) = 1
    /\ Len(sly_data.agent_reservations) >= 4

\* process_group_results has run, whatever it returned
Merged == cpc \in {"done", "raised"}

\* C17: at aggregation, a group result whose reservation list is missing,
\* empty or not a list is a contract violation: the aggregation fails; it
\* does not skip that group and return a merged list built from the others.
C17_BadGroupResultFails ==
    (Merged /\ ~AllCarryReservations) =>
        /\ outcome.status # "ok"
        /\ cpc = "raised"

\* C18: with a single group (G = 1), the merged reservation list is the sole
\* group's list unchanged, its last element, the sole group's entry point, is
\* the overall entry point, and sly_data["aa_grouping_json"] is that group's
\* descriptor itself, not a one-element list.
C18_SingleGroup ==
    (Merged /\ Len(sly_data.group_results) = 1 /\ AllCarryReservations) =>
        LET sole == sly_data.group_results[1]
            merged == sly_data.agent_reservations
        IN /\ merged = sole.agent_reservations
           /\ merged[Len(merged)] =
                  sole.agent_reservations[Len(sole.agent_reservations)]
           /\ sly_data.aa_grouping_json =
                  [shape |-> "single", value |-> <<sole.grouping_json>>]

\* C18 witness: a single group with leaf networks before its entry point
\* was aggregated
C18_Witness ==
    /\ Merged
    /\ Len(sly_data.group_results) = 1
    /\ Len(sly_data.group_results[1].agent_reservations) >= 3
    /\ Len(sly_data.agent_reservations) >= 3
    /\ sly_data.aa_grouping_json.shape = "single"

(***************************************************************************)
(* Properties of the fan-out and of CreateNetworks (checked under Spec).   *)
(***************************************************************************)
\* the pipeline of group g returned its success output
Succeeded(g) == branch[g].pc = "done" /\ branch[g].error = "none"

\* process_group_results has run
Aggregated == outcome.status \in {"ok", "IndexError"}

\* C6: each group's pipeline writes its result into its own slot of
\* sly_data["group_results"]; once the pipeline of group i has completed,
\* slot i holds the reservations and the descriptor produced for group i.
C6_OwnSlotWritten ==
    \A g \in Groups :
        Succeeded(g) =>
            /\ sly_data.group_results[g].kind = "list"
            /\ sly_data.group_results[g].agent_reservations =
                   assemble_reservation_info(branch[g].reserved)
            /\ sly_data.group_results[g].grouping_json = branch[g].grouping_json

\* C7: whatever the order of completion, entry i of the list returned by
\* do_subgroups_in_parallel is the output of group i, and with G >= 2 entry i
\* of sly_data["aa_grouping_json"] is the descriptor produced for group i.
C7_IndexAligned ==
    /\ (cpc = "aggregate" \/ Aggregated) =>
          /\ Len(results) = Len(branch)
          /\ \A g \in Groups : results[g] = branch[g].result
    /\ (Aggregated /\ Len(branch) >= 2) =>
          /\ sly_data.aa_grouping_json.shape = "list"
          /\ Len(sly_data.aa_grouping_json.value) = Len(branch)
          /\ \A g \in Groups :
               sly_data.aa_grouping_json.value[g] = branch[g].grouping_json

\* C8: the aggregation step runs, and reads sly_data["group_results"], only
\* when every per-group pipeline has completed: never while one is in flight.
C8_JoinBarrier ==
    (cpc = "aggregate" \/ Aggregated) =>
        \A g \in Groups : branch[g].pc = "done"

\* C8 witness: two pipelines ran, and the aggregation is about to read
C8_Witness ==
    /\ cpc = "aggregate"
    /\ Len(branch) >= 2
    /\ \A g \in Groups : Succeeded(g)

C10_ConfirmedBeforePublish ==
    /\ \A g \in Groups :
         /\ branch[g].pc = "wait" => branch[g].deployed_event \in {"pending", "set"}
         /\ Succeeded(g) => branch[g].deployed_event = "set"
    /\ ~Aggregated =>
         \A n \in DOMAIN sly_data.agent_reservations :
             branch[sly_data.agent_reservations[n].reservation_id[1]].deployed_event = "set"

\* C10 witness: a pipeline has published and returned, its batch confirmed,
\* while another still waits for its own confirmation
C10_Witness ==
    \E g, h \in Groups :
        /\ Succeeded(g)
        /\ sly_data.agent_reservations = assemble_reservation_info(branch[g].reserved)
        /\ branch[h].pc = "wait"
        /\ branch[h].deployed_event = "pending"

\* C11: deployment is all or nothing for the caller: when deploy fails,
\* CreateNetworks.async_invoke returns the error message and leaves sly_data
\* as it was; when it succeeds, sly_data["agent_reservations"] holds one
\* entry for every reservation of the batch.
C11_AllOrNothing ==
    [][\A g \in Groups :
          /\ (branch[g].pc = "deploy" /\ branch'[g].pc = "done") =>
                /\ branch'[g].result = Raised("error message")
                /\ sly_data' = sly_data
          /\ (branch[g].pc = "wait" /\ branch'[g].pc = "done") =>
                /\ branch'[g].result.status = "ok"
                /\ Len(sly_data'.agent_reservations) = Len(branch[g].reserved)
                /\ \A n \in DOMAIN branch[g].reserved :
                     sly_data'.agent_reservations[n].reservation_id =
                         branch[g].reserved[n].reservation_id]_vars

\* C11 witness: the deploy of one pipeline failed and sly_data still holds
\* what another pipeline published, one entry per reservation of its batch
C11_Witness ==
    \E g, h \in Groups :
        /\ branch[g].error = "deploy"
        /\ branch[g].result = Raised("error message")
        /\ Succeeded(h)
        /\ sly_data.agent_reservations = assemble_reservation_info(branch[h].reserved)
        /\ Len(sly_data.agent_reservations) >= 2

\* the network that the deployments of pipeline g map reservation id to
NetworkOf(g, id) ==
    branch[g].reserved[CHOOSE n \in DOMAIN branch[g].reserved :
                          branch[g].reserved[n].reservation_id = id].network

\* C12: in the reservation list CreateNetworks.async_invoke publishes, the
\* last entry is the reservation of the group network and every entry before
\* it is the reservation of a leaf network; the id named in the returned
\* output is the id of that last entry.
C12_EntryPointLast ==
    \A g \in Groups :
        Succeeded(g) =>
            LET list == branch[g].published
            IN /\ Len(list) >= 1
               /\ NetworkOf(g, list[Len(list)].reservation_id) = "group"
               /\ \A n \in 1..(Len(list) - 1) :
                    NetworkOf(g, list[n].reservation_id) = "leaf"
               /\ branch[g].result.entry = list[Len(list)].reservation_id

\* C12 witness: a pipeline published its leaf network and its group network
C12_Witness ==
    \E g \in Groups :
        /\ Succeeded(g)
        /\ Len(branch[g].published) >= 2
        /\ branch[g].result.status = "ok"

\* the coroutine of group g has ended, by returning or by raising
Completed(g) == branch[g].pc \in {"done", "failed"}

\* the failure of a branch was delivered to the caller of async_invoke
BranchFailureDelivered == cpc = "raised" /\ Groups # {}

\* C21: when one group's branch fails while sibling branches are in flight,
\* the siblings are not cancelled and run to completion, and the failure is
\* delivered to the caller of CoarseGrouping.async_invoke only after every
\* sibling branch has completed, never while a sibling is still running.
C21_FailureAfterJoin ==
    BranchFailureDelivered => \A g \in Groups : Completed(g)

\* C22: concurrent invocations of CreateNetworks.async_invoke on one instance
\* are independent: every reservation prefix an invocation requests uses that
\* invocation's own grouping_json, even when another invocation starts while
\* it is suspended, and the aa_grouping_json it publishes is its own.
C22_InvocationsIndependent ==
    [][\A g \in DOMAIN branch :
          /\ \A n \in DOMAIN branch'[g].reserved :
                branch'[g].reserved[n].prefix[1] = branch'[g].grouping_json.name
          /\ (branch[g].pc = "wait" /\ branch'[g].pc = "done") =>
                sly_data'.aa_grouping_json =
                    [shape |-> "single", value |-> <<branch[g].grouping_json>>]]_vars

(***************************************************************************)
(* Properties of the builders of CreateNetworks (checked under             *)
(* SpecNetworks).                                                          *)
(***************************************************************************)
\* the deployments hold the group network, made from the leaf reservations
GroupNetworkMade ==
    /\ cn.deployments # <<>>
    /\ cn.deployments[Len(cn.deployments)].level = "group"

\* the leaf entries of the deployments, which make_group_network was handed
LeafDeployments == SubSeq(cn.deployments, 1, Len(cn.deployments) - 1)

\* the front man of the group network
GroupFrontMan ==
    cn.deployments[Len(cn.deployments)].network.tools[TEMPLATE_FRONT_MAN_INDEX + 1]

\* an address with the scheme and host put before it
Prefixed(res_id) == <<"http://localhost/">> \o res_id

\* C13: make_group_network puts 'http://localhost/' before a leaf
\* reservation's address only if the address is neither absolute (starts
\* with 'http') nor rooted (starts with '/'); an absolute or rooted address
\* is the front man's tool reference unchanged.
C13_PrefixOnlyRelative ==
    GroupNetworkMade =>
        \A n \in DOMAIN LeafDeployments :
            LET res_id == LeafDeployments[n].reservation.url
            IN GroupFrontMan.tools[n] =
                  IF StartsWith(res_id, "http") \/ StartsWith(res_id, "/")
                  THEN res_id
                  ELSE Prefixed(res_id)

\* the group of name_to_group that a network of name_to_network was built for
GroupOf(entry) ==
    cn.name_to_group[CHOOSE n \in DOMAIN cn.name_to_group :
                        cn.name_to_group[n].name = entry.name]

\* the tools of the template that stay in a built network
KeptTools == Len(NetworkTemplate.tools) - 1

\* C14: for a group whose files mapping has k entries,
\* create_one_leaf_network returns a spec in which the trailing content-node
\* template is replaced by exactly k content nodes, one per file in the
\* mapping's order, and the front man (tools index 0) has exactly the k agent
\* names, in that order, as its sub-agents.
C14_LeafNetworkShape ==
    \A e \in DOMAIN cn.name_to_network :
        LET network == cn.name_to_network[e].network
            files == GroupOf(cn.name_to_network[e]).files.items
            k == Len(files)
        IN /\ Len(network.tools) = KeptTools + k
           /\ \A n \in 1..KeptTools :
                network.tools[n].name = NetworkTemplate.tools[n].name
                    \/ n = TEMPLATE_FRONT_MAN_INDEX + 1
           /\ \A n \in 1..k :
                /\ network.tools[KeptTools + n].name = files[n].tool_name
                /\ network.tools[KeptTools + n].instructions =
                       FileContent(files[n].file_name)
           /\ network.tools[TEMPLATE_FRONT_MAN_INDEX + 1].tools =
                  [n \in 1..k |-> files[n].tool_name]

\* C14 witness: a leaf network was built for a mapping of two files
C14_Witness ==
    \E e \in DOMAIN cn.name_to_network :
        /\ Len(GroupOf(cn.name_to_network[e]).files.items) >= 2
        /\ Len(cn.name_to_network[e].network.tools) >= 3

\* C15: the spec make_group_network returns holds no content node (the
\* trailing content-node template is dropped, not filled in), and its front
\* man's sub-agent list has exactly one address per leaf reservation, in the
\* order in which the leaf networks were reserved.
C15_GroupNetworkShape ==
    GroupNetworkMade =>
        LET network == cn.deployments[Len(cn.deployments)].network
        IN /\ Len(network.tools) = KeptTools
           /\ \A n \in DOMAIN network.tools :
                network.tools[n].name # ContentTemplate.name
           /\ Len(GroupFrontMan.tools) = Len(LeafDeployments)
           /\ \A n \in DOMAIN LeafDeployments :
                GroupFrontMan.tools[n] \in
                    {LeafDeployments[n].reservation.url,
                     Prefixed(LeafDeployments[n].reservation.url)}

\* C15 witness: a group network was made over two leaf reservations
C15_Witness ==
    /\ GroupNetworkMade
    /\ Len(LeafDeployments) >= 2
    /\ Len(GroupFrontMan.tools) = 2

\* a descriptor with every field the build requires
WellFormed(grouping_json) ==
    /\ ~grouping_json.name.none
    /\ \A n \in DOMAIN grouping_json.groups :
         /\ ~grouping_json.groups[n].name.none
         /\ HasFiles(grouping_json.groups[n])

\* C16: when a group descriptor lacks a required field (no name, or no or
\* empty files), the build fails with an error: it never completes with a
\* deployment from which that group's leaf network is missing.
C16_MalformedDescriptorFails ==
    (cn.pc = "done" /\ ~WellFormed(cn.grouping_json)) =>
        /\ cn.error # "none"
        /\ ~cn.published

\* C19: the network template of the CreateNetworks instance is never
\* modified: after any sequence of create_one_leaf_network,
\* create_one_content_agent and make_group_network it equals the template
\* loaded in the constructor, tools list and content-node template included.
C19_TemplateUnchanged ==
    cn.pc # "idle" => cn.network_template = NetworkTemplate

\* C19 witness: leaf networks and the group network were built from the
\* template, which still has its content-node template
C19_Witness ==
    /\ cn.pc = "done"
    /\ Len(cn.name_to_network) >= 2
    /\ GroupNetworkMade
    /\ cn.network_template.tools[Len(cn.network_template.tools)] = ContentTemplate

(***************************************************************************)
(* Properties of TxtLoader (checked under SpecLoader).                     *)
(***************************************************************************)
\* a text in the format "Error: <error message>"
ErrorFormat(text) ==
    /\ Len(text) >= 4
    /\ text[1] = "Error"
    /\ text[2] = ":"
    /\ text[3] = " "

\* C20: TxtLoader.invoke never raises: when it cannot return the file's
\* content (no file_path given, or the file is missing or unreadable) it
\* returns an error message in the format 'Error: <error message>'; when the
\* file is readable it returns exactly the file's content.
C20_ErrorFormatOrContent ==
    /\ loader.pc \in {"idle", "invoke", "returned"}
    /\ loader.pc = "returned" =>
         IF FilePathArg(loader.args) # <<>> /\ loader.file.kind = "text"
         THEN loader.output = loader.file.content
         ELSE ErrorFormat(loader.output)

\* deploy has been called in the invocation
DeployCalled == cn.pc \in {"wait", "done"}

\* C23: within one CreateNetworks.async_invoke, deploy is called exactly
\* once, after every reserve call of the invocation has returned, with a batch
\* that maps each reservation made (one per leaf network plus one for the
\* group network) to exactly one network spec; no reservation is deployed
\* twice and none is reserved after the deploy.
C23_OneDeployAfterReserves ==
    /\ Len(cn.deploy_calls) <= 1
    /\ DeployCalled => Len(cn.deploy_calls) = 1
    /\ \A c \in DOMAIN cn.deploy_calls :
         LET batch == cn.deploy_calls[c]
         IN /\ batch = cn.deployments
            /\ Len(batch) = Len(cn.name_to_network) + 1
            /\ batch[Len(batch)].level = "group"
            /\ \A n \in 1..(Len(batch) - 1) :
                 /\ batch[n].level = "leaf"
                 /\ batch[n].network = cn.name_to_network[n].network
            /\ \A n, k \in DOMAIN batch :
                 batch[n].reservation = batch[k].reservation => n = k

\* C23 witness: the one batch, of two leaf reservations and the group's, was
\* deployed and confirmed
C23_Witness ==
    /\ cn.pc = "done"
    /\ cn.published
    /\ Len(cn.deploy_calls) = 1
    /\ Len(cn.deploy_calls[1]) >= 3

\* C25: every content file of every group is read before the first reserve
\* call; so when reading a file fails, the invocation fails with that error
\* having made no reservation and no deploy call.
C25_ReadsBeforeReserve ==
    /\ cn.deployments # <<>> => cn.next > Len(cn.name_to_group)
    /\ (cn.pc = "raised" /\ cn.error = "OSError") =>
          /\ cn.deployments = <<>>
          /\ cn.deploy_calls = <<>>

\* C25 witness: a file read failed after the leaf network of an earlier group
\* was built
C25_Witness ==
    /\ cn.pc = "raised"
    /\ cn.error = "OSError"
    /\ cn.name_to_network # <<>>
    /\ cn.deployments = <<>>

\* the distinct names of the groups that have a non-empty files mapping
NamesWithFiles(groups) ==
    {groups[n].name : n \in {k \in DOMAIN groups : HasFiles(groups[k])}}

\* the last group of the given name
LastNamed(groups, name) ==
    groups[CHOOSE n \in DOMAIN groups :
              /\ groups[n].name = name
              /\ \A k \in DOMAIN groups : groups[k].name = name => k <= n]

\* C26: in assemble_deployments the number of leaf reservations made is the
\* number of distinct group names among the groups that have a non-empty
\* files mapping: when two groups share a name only the later one's network
\* is built and reserved, and the batch has that count plus one reservations.
C26_LeafReservationCount ==
    GroupNetworkMade =>
        LET groups == cn.grouping_json.groups
            count == Cardinality(NamesWithFiles(groups))
        IN /\ Len(LeafDeployments) = count
           /\ Len(cn.deployments) = count + 1
           /\ \A n \in DOMAIN LeafDeployments :
                LeafDeployments[n].network =
                    create_one_leaf_network(NetworkTemplate,
                        LastNamed(groups, cn.name_to_network[n].name),
                        cn.grouping_json)

\* C24: for every group index i, the branch for group i calls the analysis
\* tool exactly once, with a file_list equal to group i's files and the
\* shared basis arguments, and calls create_network exactly once, only after
\* that analysis call has returned, passing group_number = i and the
\* descriptor parsed from group i's own analysis result; one branch's
\* arguments are not another branch's.
C24_BranchCalls ==
    \A i \in Groups :
        LET calls == branch[i].calls
            analysis == calls[1]
            create_network == calls[2]
        IN /\ Len(calls) <= 2
           /\ branch[i].pc # "analysis" =>
                /\ Len(calls) >= 1
                /\ analysis.tool_name = "rough_substructure"
                /\ analysis.tool_args.file_list = file_groups.groups[i]
                /\ analysis.tool_args.basis = BasisArgs(args)
           /\ branch[i].pc \notin {"analysis", "create_network"}
                    /\ branch[i].error # "analysis" =>
                /\ Len(calls) = 2
                /\ create_network.tool_name = "create_network"
                /\ create_network.tool_args.group_number = i
                /\ create_network.tool_args.grouping_json = analysis.returned
                /\ create_network.tool_args.grouping_json.name = i
           /\ branch[i].error = "analysis" => Len(calls) = 1
           /\ branch[i].pc \in {"analysis", "create_network"} =>
                Len(calls) = IF branch[i].pc = "analysis" THEN 0 ELSE 1

\* C24 witness: two branches with different files have both made both calls
C24_Witness ==
    /\ Len(branch) >= 2
    /\ file_groups.groups[1] # file_groups.groups[2]
    /\ \A i \in Groups : Len(branch[i].calls) = 2 /\ branch[i].pc = "done"

====
